---- MODULE Spec2Model ----
(***************************************************************************)
(* Model of src/types/index.ts: the socket/REST validators                 *)
(* (SocketValidate.snapshot, SocketValidate.data, RestValidate.data), the  *)
(* shared validate helper with its bounded error summary, and the message  *)
(* classifier predicates of MessageTypes.                                  *)
(*                                                                         *)
(* Every validator call is synchronous and keeps no state between calls,   *)
(* so one action models one whole call.  The variables hold the arguments  *)
(* of the call and what it did: the ordered trace of its steps, the        *)
(* arguments onError was invoked with, and its outcome.                    *)
(***************************************************************************)
EXTENDS Integers, Sequences, FiniteSets, TLC

VARIABLES pc, op, frame, type, onError, trace, calls, result, msg, cls

vars == <<pc, op, frame, type, onError, trace, calls, result, msg, cls>>

(* ---------------------------- bounds ---------------------------------- *)

\* Longest error list the decoder reports in the model.
MaxErrors == 6

(* ------------------------- JavaScript values -------------------------- *)

\* A JSON / JavaScript value: t is its kind, s the text of a primitive,
\* a the elements of an array.
V(t, s, a) == [t |-> t, s |-> s, a |-> a]

Undef == V("undefined", "", <<>>)

Null == V("null", "", <<>>)

Str(s) == V("string", s, <<>>)

Num(s) == V("number", s, <<>>)

Bool(s) == V("boolean", s, <<>>)

Arr(a) == V("array", "", a)

Obj(s) == V("object", s, <<>>)

\* JavaScript ToBoolean, as used by the `!x` and `a && b` tests.
Truthy(v) ==
  CASE v.t = "undefined" -> FALSE
    [] v.t = "null" -> FALSE
    [] v.t = "boolean" -> v.s = "true"
    [] v.t = "number" -> v.s # "0"
    [] v.t = "string" -> v.s # ""
    [] OTHER -> TRUE

\* Array.isArray
IsArray(v) == v.t = "array"

\* The typeof operator.
TypeOf(v) ==
  CASE v.t = "undefined" -> "undefined"
    [] v.t = "boolean" -> "boolean"
    [] v.t = "number" -> "number"
    [] v.t = "string" -> "string"
    [] OTHER -> "object"

(* ----------------------------- frames --------------------------------- *)

\* Values a top-level field of a frame takes in the model.
UuidValues == {Undef, Null, Str(""), Str("abc"), Num("0"), Num("7")}

PayloadValues ==
  {Undef, Null, Str("x"), Num("0"), Num("5"), Arr(<<>>), Arr(<<"1", "2">>),
   Obj("{a:1}")}

\* A frame: whether its text is JSON at all, the kind of the parsed
\* top-level value, and the fields the validators read from it.
Fr(parsable, top, uuid, snapshot, data) ==
  [parsable |-> parsable, top |-> top, uuid |-> uuid, snapshot |-> snapshot,
   data |-> data]

NotJson == Fr(FALSE, "none", Undef, Undef, Undef)

\* JSON texts whose value is not an object: null, 5, "s", [1].
NullFrame == Fr(TRUE, "null", Undef, Undef, Undef)

ScalarFrames ==
  {Fr(TRUE, top, Undef, Undef, Undef) : top \in {"number", "string", "array"}}

ObjectFrames ==
  {Fr(TRUE, "object", u, s, d) :
     u \in UuidValues, s \in PayloadValues, d \in PayloadValues}

Frames == {NotJson, NullFrame} \cup ScalarFrames \cup ObjectFrames

NoFrame == Fr(FALSE, "unused", Undef, Undef, Undef)

(* ------------------------- errors and outcomes ------------------------ *)

\* A thrown or reported error: its kind and its message (a token sequence).
Err(kind, text) == [kind |-> kind, text |-> text]

NoErr == Err("none", <<>>)

SyntaxError == Err("SyntaxError", <<"Unexpected token">>)

TypeError == Err("TypeError", <<"Cannot read property of null">>)

\* class DataValidationError extends Error
DataValidationError(pathsStr) == Err("DataValidationError", pathsStr)

\* A returned value: either a bare value, or an envelope {uuid, <field>: v}.
Bare(v) == [env |-> FALSE, uuid |-> Undef, field |-> "", payload |-> v]

Envelope(uuid, field, v) ==
  [env |-> TRUE, uuid |-> uuid, field |-> field, payload |-> v]

\* What a call did: the ordered steps, the arguments given to onError, and
\* how it ended.
Out(tr, cs, kind, exc, val) ==
  [trace |-> tr, calls |-> cs, kind |-> kind, exc |-> exc, val |-> val]

Returns(tr, cs, val) == Out(tr, cs, "return", NoErr, val)

Throws(tr, cs, exc) == Out(tr, cs, "throw", exc, Bare(Undef))

(* ---------------------------- error policy ---------------------------- *)

\* The caller's error policies: rethrow the error it is given (as
\* RestValidate.data does), raise an error of its own, or return a
\* substitute value.
Policies == {"rethrow", "raise", "null", "fallback"}

PolicyError == Err("PolicyError", <<"aborted">>)

Fallback == Arr(<<"fallback">>)

PolicyRaises(policy) == policy \in {"rethrow", "raise"}

PolicyException(policy, err) == IF policy = "rethrow" THEN err ELSE PolicyError

PolicyValue(policy) == IF policy = "null" THEN Null ELSE Fallback

(* ------------------------------ schemas ------------------------------- *)

\* A schema, reduced to what its decode does on the value of this call:
\* accept it (possibly coercing every element) or report a non-empty
\* ordered list of error messages.
Messages == {"a", "b"}

RECURSIVE SeqsOf(_, _)
SeqsOf(S, n) ==
  IF n = 0 THEN {<<>>}
  ELSE LET shorter == SeqsOf(S, n - 1) IN
       shorter \cup {Append(q, x) : q \in {r \in shorter : Len(r) = n - 1}, x \in S}

ErrorLists == {q \in SeqsOf(Messages, MaxErrors) : Len(q) >= 1}

Types ==
  {[accepts |-> TRUE, coerces |-> c, errors |-> <<>>] : c \in BOOLEAN}
    \cup {[accepts |-> FALSE, coerces |-> FALSE, errors |-> e] : e \in ErrorLists}

NoType == [accepts |-> TRUE, coerces |-> FALSE, errors |-> <<>>]

\* The value a successful decode yields: an array is decoded element by
\* element, so the empty array decodes to itself.
Decoded(ty, data) ==
  IF ~ty.coerces THEN data
  ELSE IF IsArray(data)
    THEN Arr([i \in 1..Len(data.a) |-> "c" \o data.a[i]])
    ELSE V(data.t, "c" \o data.s, <<>>)

(* --------------------------- Error Reporter --------------------------- *)

\* How many errors are maximally reported.
NUM_ERRORS == 5

\* Array.prototype.join('\n') on a list of messages.
JoinNL(paths) ==
  IF Len(paths) = 0 THEN <<>>
  ELSE [i \in 1..(2 * Len(paths) - 1) |->
          IF i % 2 = 1 THEN paths[(i + 1) \div 2] ELSE "\n"]

\* Variant: the length test is strict, so exactly NUM_ERRORS errors are
\* already reported in the truncated form.
pathsStr_strictBound(paths) ==
  IF Len(paths) < NUM_ERRORS
    THEN JoinNL(paths)
    ELSE <<ToString(Len(paths)), " errors. ", "First ", ToString(NUM_ERRORS), ": ">>
           \o JoinNL(SubSeq(paths, 1, NUM_ERRORS))

\* The summary string built inside validate for a failed decode.
pathsStr(paths) ==
  IF Len(paths) <= NUM_ERRORS
    THEN JoinNL(paths)
    ELSE <<ToString(Len(paths)), " errors. ", "First ", ToString(NUM_ERRORS), ": ">>
           \o JoinNL(SubSeq(paths, 1, NUM_ERRORS))

(* ------------------------------ validate ------------------------------ *)

\* Variant: an error raised by onError is caught and the call goes on with
\* undefined.
InvokeOnError_swallows(tr, policy, err) ==
  IF PolicyRaises(policy)
    THEN Returns(Append(tr, "onError"), <<err>>, Bare(Undef))
    ELSE Returns(Append(tr, "onError"), <<err>>, Bare(PolicyValue(policy)))

\* The call onError(err) made after the steps tr: onError either raises,
\* which ends the enclosing call, or returns a value.
InvokeOnError(tr, policy, err) ==
  IF PolicyRaises(policy)
    THEN Throws(Append(tr, "onError"), <<err>>, PolicyException(policy, err))
    ELSE Returns(Append(tr, "onError"), <<err>>, Bare(PolicyValue(policy)))

\* Variant: onError is told about the failure but its value is dropped and
\* the undecoded input returned.
validate_dropsOnErrorValue(tr, d, ty, policy) ==
  IF ty.accepts
    THEN Returns(Append(tr, "decode"), <<>>, Bare(Decoded(ty, d)))
    ELSE LET o == InvokeOnError(Append(tr, "decode"), policy,
                                DataValidationError(pathsStr(ty.errors)))
         IN IF o.kind = "return" THEN Returns(o.trace, o.calls, Bare(d)) ELSE o

\* validate(data, type, onError): the decoded value, or on a failed decode
\* whatever onError makes of the DataValidationError.
validate(tr, d, ty, policy) ==
  IF ty.accepts
    THEN Returns(Append(tr, "decode"), <<>>, Bare(Decoded(ty, d)))
    ELSE InvokeOnError(Append(tr, "decode"), policy,
                       DataValidationError(pathsStr(ty.errors)))

(* -------------------------- SocketValidate ---------------------------- *)

MsgStr == "${msgStr}"

NoUuidSnapshot == Err("string", <<"Message ", MsgStr, " has no UUID">>)

NoSnapshotField == Err("string", <<"Message ", MsgStr, " has no 'snapshot' field!">>)

SnapshotNotArray == Err("string", <<"Snapshot in message ", MsgStr, " is not an array!">>)

NoUuidData == Err("string", <<"Message ", MsgStr, " has no UUID!">>)

NoDataField == Err("string", <<"Message ", MsgStr, " has no 'data' field!">>)

\* Variant: a parse failure is caught and the frame treated as an empty
\* envelope.
ParseOutcome_catches(f) == IF f.parsable /\ f.top = "null" THEN "TypeError" ELSE "ok"

\* JSON.parse followed by the destructuring of the parsed value: the parse
\* throws on text that is not JSON, the destructuring on the value null.
ParseOutcome(f) ==
  IF ~f.parsable THEN "SyntaxError"
  ELSE IF f.top = "null" THEN "TypeError"
  ELSE "ok"

\* The tail of both validators: `{ uuid, <field>: decoded }` around what
\* validate returned.
WrapDecoded(o, uuid, field) ==
  IF o.kind = "return"
    THEN Returns(o.trace, o.calls, Envelope(uuid, field, o.val.payload))
    ELSE o

\* Variant: the Array.isArray test on the snapshot is missing.
snapshot_noArrayCheck(f, ty, policy) ==
  IF ParseOutcome(f) = "SyntaxError" THEN Throws(<<"parse">>, <<>>, SyntaxError)
  ELSE IF ParseOutcome(f) = "TypeError" THEN Throws(<<"parse">>, <<>>, TypeError)
  ELSE IF ~Truthy(f.uuid) THEN InvokeOnError(<<"parse">>, policy, NoUuidSnapshot)
  ELSE IF ~Truthy(f.snapshot) THEN InvokeOnError(<<"parse">>, policy, NoSnapshotField)
  ELSE WrapDecoded(validate(<<"parse">>, f.snapshot, ty, policy), f.uuid, "snapshot")

snapshot(f, ty, policy) ==
  IF ParseOutcome(f) = "SyntaxError" THEN Throws(<<"parse">>, <<>>, SyntaxError)
  ELSE IF ParseOutcome(f) = "TypeError" THEN Throws(<<"parse">>, <<>>, TypeError)
  ELSE IF ~Truthy(f.uuid) THEN InvokeOnError(<<"parse">>, policy, NoUuidSnapshot)
  ELSE IF ~Truthy(f.snapshot) THEN InvokeOnError(<<"parse">>, policy, NoSnapshotField)
  ELSE IF ~IsArray(f.snapshot) THEN InvokeOnError(<<"parse">>, policy, SnapshotNotArray)
  ELSE WrapDecoded(validate(<<"parse">>, f.snapshot, ty, policy), f.uuid, "snapshot")

\* Variant: an empty data array is reported like a missing one.
data_rejectsEmpty(f, ty, policy) ==
  IF ParseOutcome(f) = "SyntaxError" THEN Throws(<<"parse">>, <<>>, SyntaxError)
  ELSE IF ParseOutcome(f) = "TypeError" THEN Throws(<<"parse">>, <<>>, TypeError)
  ELSE IF ~Truthy(f.uuid) THEN InvokeOnError(<<"parse">>, policy, NoUuidData)
  ELSE IF ~Truthy(f.data) \/ f.data = Arr(<<>>)
    THEN InvokeOnError(<<"parse">>, policy, NoDataField)
  ELSE WrapDecoded(validate(<<"parse">>, f.data, ty, policy), f.uuid, "data")

data(f, ty, policy) ==
  IF ParseOutcome(f) = "SyntaxError" THEN Throws(<<"parse">>, <<>>, SyntaxError)
  ELSE IF ParseOutcome(f) = "TypeError" THEN Throws(<<"parse">>, <<>>, TypeError)
  ELSE IF ~Truthy(f.uuid) THEN InvokeOnError(<<"parse">>, policy, NoUuidData)
  ELSE IF ~Truthy(f.data) THEN InvokeOnError(<<"parse">>, policy, NoDataField)
  ELSE WrapDecoded(validate(<<"parse">>, f.data, ty, policy), f.uuid, "data")

(* ---------------------------- RestValidate ---------------------------- *)

\* Already-parsed values handed to RestValidate.data.
RestValues == {Arr(<<>>), Arr(<<"1", "2">>), Obj("{a:1}"), Obj("{}")}

\* Variant: the callback logs the error and returns instead of throwing.
restData_lenient(d, ty) == validate(<<>>, d, ty, "null")

\* RestValidate.data: validate with an onError that rethrows its argument.
restData(d, ty) == validate(<<>>, d, ty, "rethrow")

(* ---------------------------- MessageTypes ---------------------------- *)

PAYMENT_RECEIVED == "payment received"

UNSUBSCRIBED == "unsubscribed"

FieldValues == {Undef, Str("x"), Num("5")}

EventValues == {Undef, Str(PAYMENT_RECEIVED), Str(UNSUBSCRIBED), Str("other"), Num("5")}

Msgs ==
  [uuid : FieldValues, event : EventValues, amountRefunded : FieldValues,
   exchange : FieldValues, duration : FieldValues, symbol : FieldValues]

NoMsg ==
  [uuid |-> Undef, event |-> Undef, amountRefunded |-> Undef,
   exchange |-> Undef, duration |-> Undef, symbol |-> Undef]

hasUuid(m) == TypeOf(m.uuid) = "string"

\* Variant: the event name is not compared.
isPaymentReceived_anyEvent(m) ==
  /\ TypeOf(m.uuid) = "string"
  /\ TypeOf(m.exchange) = "string"
  /\ TypeOf(m.duration) = "number"
  /\ TypeOf(m.symbol) = "string"

isPaymentReceived(m) ==
  /\ TypeOf(m.uuid) = "string"
  /\ TypeOf(m.exchange) = "string"
  /\ TypeOf(m.duration) = "number"
  /\ m.event = Str(PAYMENT_RECEIVED)
  /\ TypeOf(m.symbol) = "string"

isUnubscribed(m) ==
  /\ TypeOf(m.uuid) = "string"
  /\ m.event = Str(UNSUBSCRIBED)
  /\ TypeOf(m.amountRefunded) = "number"

Classify(m) ==
  [hasUuid |-> hasUuid(m), isPaymentReceived |-> isPaymentReceived(m),
   isUnubscribed |-> isUnubscribed(m)]

NoCls == [hasUuid |-> FALSE, isPaymentReceived |-> FALSE, isUnubscribed |-> FALSE]

(* --------------------------- state machine ---------------------------- *)

\* Each behaviour is one call: Init holds the operation called and its
\* arguments, the action of that operation runs the whole call and records
\* what it did.

NoResult == [kind |-> "none", exc |-> NoErr, val |-> Bare(Undef)]

\* The value RestValidate.data is given is kept in the data field of the
\* recorded frame.
RestFrame(d) == Fr(TRUE, "value", Undef, Undef, d)

Init ==
  /\ pc = "called"
  /\ trace = <<>>
  /\ calls = <<>>
  /\ result = NoResult
  /\ cls = NoCls
  /\ \/ /\ op \in {"snapshot", "data"}
        /\ frame \in Frames
        /\ type \in Types
        /\ onError \in Policies
        /\ msg = NoMsg
     \/ /\ op = "rest"
        /\ frame \in {RestFrame(d) : d \in RestValues}
        /\ type \in Types
        /\ onError = "rethrow"
        /\ msg = NoMsg
     \/ /\ op = "classify"
        /\ frame = NoFrame
        /\ type = NoType
        /\ onError = "rethrow"
        /\ msg \in Msgs

\* The record of one finished validator call.
Finish(o) ==
  /\ pc' = "done"
  /\ trace' = o.trace
  /\ calls' = o.calls
  /\ result' = [kind |-> o.kind, exc |-> o.exc, val |-> o.val]
  /\ UNCHANGED <<op, frame, type, onError, msg, cls>>

SnapshotCall ==
  /\ pc = "called"
  /\ op = "snapshot"
  /\ Finish(snapshot(frame, type, onError))

DataCall ==
  /\ pc = "called"
  /\ op = "data"
  /\ Finish(data(frame, type, onError))

RestCall ==
  /\ pc = "called"
  /\ op = "rest"
  /\ Finish(restData(frame.data, type))

ClassifyCall ==
  /\ pc = "called"
  /\ op = "classify"
  /\ pc' = "done"
  /\ cls' = Classify(msg)
  /\ UNCHANGED <<op, frame, type, onError, trace, calls, result, msg>>

Next == SnapshotCall \/ DataCall \/ RestCall \/ ClassifyCall

Spec == Init /\ [][Next]_vars

(* ------------------------------ properties --------------------------- *)

Done == pc = "done"

SocketOp == op \in {"snapshot", "data"}

\* The payload field the called validator reads.
Payload == IF op = "snapshot" THEN frame.snapshot ELSE frame.data

InTrace(e) == \E i \in 1..Len(trace) : trace[i] = e

OnErrorReturns == onError \in {"null", "fallback"}

OnErrorReturned == IF onError = "null" THEN Null ELSE Fallback

NonEmptyString(v) == v.t = "string" /\ v.s # ""

\* A malformed envelope in the sense of the contract: uuid missing, or the
\* payload field missing, or (snapshot) present but not an array.
MalformedEnvelope ==
  \/ frame.uuid = Undef
  \/ Payload = Undef
  \/ op = "snapshot" /\ ~IsArray(frame.snapshot)

\* The summary expected for the error list e, position by position.
IsSummaryOf(t, e) ==
  LET k == Len(e)
      n == IF k <= 5 THEN k ELSE 5
      h == IF k <= 5 THEN 0 ELSE 5
  IN /\ Len(t) = h + 2 * n - 1
     /\ k > 5 => /\ t[1] = ToString(k)
                 /\ t[2] = " errors. "
                 /\ t[3] = "First "
                 /\ t[4] = "5"
                 /\ t[5] = ": "
     /\ \A i \in 1..n : t[h + 2 * i - 1] = e[i]
     /\ \A i \in 1..(n - 1) : t[h + 2 * i] = "\n"

\* C1: a JSON-parsable frame with a malformed envelope makes the validator
\* invoke onError once with a message string, never run the decoder, and
\* return exactly what onError returned.
C1_MalformedEnvelopeGoesToOnError ==
  (Done /\ SocketOp /\ frame.parsable /\ MalformedEnvelope) =>
    /\ Len(calls) = 1
    /\ calls[1].kind = "string"
    /\ ~InTrace("decode")
    /\ OnErrorReturns => (result.kind = "return" /\ result.val = Bare(OnErrorReturned))

C3_ParseFailurePropagates ==
  (Done /\ SocketOp /\ ~frame.parsable) =>
    /\ result.kind = "throw"
    /\ result.exc = SyntaxError
    /\ calls = <<>>
    /\ ~InTrace("onError")

C3_Witness ==
  Done /\ op = "data" /\ ~frame.parsable /\ onError = "null" /\ result.kind = "throw"

\* C4: when the payload of an envelope that passed the shape checks fails
\* decoding, onError is invoked with a DataValidationError carrying the
\* summary of the decode errors, and the call returns the envelope whose
\* payload is the value onError returned.
C4_DecodeFailureGoesToOnError ==
  (Done /\ SocketOp /\ InTrace("decode") /\ ~type.accepts) =>
    /\ Len(calls) = 1
    /\ calls[1].kind = "DataValidationError"
    /\ IsSummaryOf(calls[1].text, type.errors)
    /\ OnErrorReturns =>
         /\ result.kind = "return"
         /\ result.val = Envelope(frame.uuid, op, OnErrorReturned)

C4_Witness ==
  /\ Done
  /\ op = "snapshot"
  /\ InTrace("decode")
  /\ ~type.accepts
  /\ onError = "fallback"
  /\ result.kind = "return"
  /\ result.val.payload = Fallback

\* C5: the summary of k >= 1 decode errors is all k messages joined by
\* newlines when k <= 5, and otherwise "k errors. First 5: " followed by
\* exactly the first 5 messages joined by newlines.
C5_SummaryIsBounded ==
  (Done /\ op \in {"snapshot", "data", "rest"} /\ InTrace("decode") /\ ~type.accepts) =>
    /\ Len(calls) = 1
    /\ IsSummaryOf(calls[1].text, type.errors)

C5_Witness ==
  /\ Done
  /\ op = "data"
  /\ Len(type.errors) > 5
  /\ Len(calls) = 1
  /\ calls[1].kind = "DataValidationError"
  /\ Len(calls[1].text) = 14

\* C6: when onError raises inside a socket validator, the call ends by
\* propagating that exception unmodified and returns no value.
C6_OnErrorExceptionPropagates ==
  (Done /\ SocketOp /\ Len(calls) >= 1 /\ ~OnErrorReturns) =>
    /\ result.kind = "throw"
    /\ result.exc = (IF onError = "rethrow" THEN calls[Len(calls)] ELSE PolicyError)
    /\ result.val = Bare(Undef)

C6_Witness ==
  /\ Done
  /\ op = "snapshot"
  /\ onError = "raise"
  /\ InTrace("decode")
  /\ Len(calls) = 1
  /\ result.kind = "throw"

\* C7: data accepts a present but empty payload: with a non-empty uuid u,
\* data = [] and a schema accepting it, the call returns {uuid: u, data: []}
\* and onError is not invoked.
C7_EmptyDataIsAccepted ==
  (Done /\ op = "data" /\ frame.parsable /\ frame.top = "object"
     /\ NonEmptyString(frame.uuid) /\ frame.data = Arr(<<>>) /\ type.accepts) =>
    /\ result.kind = "return"
    /\ result.val = Envelope(frame.uuid, "data", Arr(<<>>))
    /\ calls = <<>>

C7_Witness ==
  /\ Done
  /\ op = "data"
  /\ frame.uuid = Str("abc")
  /\ frame.data = Arr(<<>>)
  /\ type.accepts
  /\ type.coerces
  /\ result.kind = "return"

\* C8: RestValidate.data raises a DataValidationError carrying the summary
\* for a value that fails decoding and returns nothing; for a value that
\* decodes it returns the decoded value and raises nothing.
C8_RestValidateIsFailFast ==
  (Done /\ op = "rest") =>
    IF type.accepts
      THEN /\ result.kind = "return"
           /\ result.exc = NoErr
           /\ result.val = Bare(Decoded(type, frame.data))
      ELSE /\ result.kind = "throw"
           /\ result.exc.kind = "DataValidationError"
           /\ IsSummaryOf(result.exc.text, type.errors)
           /\ result.val = Bare(Undef)

C8_Witness ==
  /\ Done
  /\ op = "rest"
  /\ ~type.accepts
  /\ result.kind = "throw"
  /\ result.exc.kind = "DataValidationError"

\* C9: a message the subscription-ended predicate accepts is accepted by
\* hasUuid and rejected by isPaymentReceived.
C9_UnsubscribedExcludesPaymentReceived ==
  (Done /\ op = "classify" /\ cls.isUnubscribed) =>
    (cls.hasUuid /\ ~cls.isPaymentReceived)

C9_Witness ==
  /\ Done
  /\ op = "classify"
  /\ cls.isUnubscribed
  /\ msg.uuid = Str("x")
  /\ msg.event = Str(UNSUBSCRIBED)
  /\ msg.amountRefunded = Num("5")
  /\ msg.exchange = Str("x")
  /\ msg.duration = Num("5")
  /\ msg.symbol = Str("x")

\* C10: a socket validator call invokes onError at most once, and not at all
\* when it succeeds; the step order is uuid check, payload check, decode, so
\* a frame lacking both the uuid and the payload field is reported with the
\* missing-UUID message only, and the decoder never runs after an
\* envelope-shape failure.
C10_OnErrorOnceInFixedOrder ==
  (Done /\ SocketOp) =>
    /\ Len(calls) <= 1
    /\ (InTrace("decode") /\ type.accepts) => calls = <<>>
    /\ trace \in {<<"parse">>, <<"parse", "onError">>, <<"parse", "decode">>,
                  <<"parse", "decode", "onError">>}
    /\ (Len(calls) = 1 /\ calls[1].kind = "string") => ~InTrace("decode")
    /\ (frame.parsable /\ frame.uuid = Undef /\ Payload = Undef) =>
         calls = <<IF op = "snapshot" THEN NoUuidSnapshot ELSE NoUuidData>>

====
